---- MODULE Spec2Model ----
(***************************************************************************)
(* Model of package retry (artyom/retry): Config, Config.WithDelayFunc,    *)
(* Func and FuncVal.  One run of Func/FuncVal is followed step by step;    *)
(* the caller's context, the operation fn and the clock are the            *)
(* environment.  Durations and instants are in abstract clock units.       *)
(***************************************************************************)
EXTENDS Integers, Sequences, FiniteSets, TLC

\* ------------------------------------------------------------------ bounds
MaxAttemptsBound == 3   \* largest Config.MaxAttempts explored
MaxDelay == 1           \* largest fixed Config.Delay explored
MaxOpTime == 1          \* longest time the calls of fn of one run take in all

\* ------------------------------------------------------------- data model
Nil == "nil"                       \* nil func value / nil error
NoErr == Nil
OpErrs == {NoErr, "boom", "bang"}  \* what fn may return
CtxErrs == {"context canceled"}     \* ctx.Err() of a done ctx (context.WithCancel)
ZeroVal == 0                       \* zero value of T (var val T)

RetryOns == {Nil, "unlessBang", "onErr", "onBoom", "never"}
DelayFns == {"lin", "dec"}
Forms == {"Func", "FuncVal"}

\* Config.RetryOn: the predicates explored, applied to an error; "onErr" is
\* the predicate of the examples, "unlessBang" also retries a success
RetryOnApply(p, e) ==
  CASE p = "unlessBang" -> e # "bang"
    [] p = "onErr"  -> e # NoErr
    [] p = "onBoom" -> e = "boom"
    [] OTHER        -> FALSE

\* Config.delayFn: the delay functions explored, applied to an attempt number
\* "lin" grows with the attempt (the delayFunc of ExampleConfig_WithDelayFunc);
\* "dec" is zero for the first wait and negative afterwards
DelayFnApply(f, n) ==
  CASE f = "lin"  -> n
    [] f = "dec"  -> 1 - n
    [] OTHER      -> 0

\* type Config struct
Configs ==
  [MaxAttempts : (0 - 1)..MaxAttemptsBound,
   RetryOn     : RetryOns,
   Delay       : 0..MaxDelay,
   delayFn     : DelayFns \cup {Nil}]

Max(a, b) == IF a >= b THEN a ELSE b

VARIABLES
  cfg,      \* the caller's Config value
  derived,  \* <<>> or <<c>>: the Config returned by cfg.WithDelayFunc
  ctxDone,  \* ctx.Done() is closed
  ctxErr,   \* ctx.Err()
  pc,       \* position of the run: idle, iter, select, fn, done
  form,     \* which entry point runs: Func or FuncVal
  runCfg,   \* the cfg parameter of Func (passed by value)
  i,        \* loop variable of "for i := range cfg.MaxAttempts"
  err,      \* var err error
  val,      \* var val T of FuncVal
  timer,    \* time left on the timer of the current wait
  opTime,   \* time the calls of fn have taken so far
  now,      \* clock
  trace,    \* history of the run: what was called, in order
  ret,      \* error returned by the run
  retVal,   \* value returned by the run (FuncVal)
  fnArg,    \* history: the fn argument of the WithDelayFunc call
  runFrom,  \* history: which Config the run was given, cfg or derived
  ctxAtCall, \* history: ctx was already done when the run was called
  alt,      \* the same call made to FuncVal of part_001, step for step
  runs,     \* concurrent runs, each given the Config value cfg
  ctxs      \* the ctx of each concurrent run

vars == <<cfg, derived, ctxDone, ctxErr, pc, form, runCfg, i, err, val,
          timer, opTime, now, trace, ret, retVal, fnArg, runFrom, ctxAtCall,
          alt, runs, ctxs>>

\* an entry of trace: what happened, its argument, the clock, the state of ctx
Ev(kind, n, e) == [ev |-> kind, n |-> n, e |-> e, t |-> now, c |-> ctxDone]

\* ------------------------------------------------------ decisions of Func
\* slip: the MaxAttempts test of the fast path is forgotten
FastPath_NilOnly(c) == c.RetryOn = Nil

\* if cfg.RetryOn == nil || cfg.MaxAttempts < 1 { return fn() }
FastPath(c) == c.RetryOn = Nil \/ c.MaxAttempts < 1

\* slip: the loop runs one iteration too many
InRange_Inclusive(n, c) == n <= c.MaxAttempts

\* for i := range cfg.MaxAttempts
InRange(n, c) == n < c.MaxAttempts

\* slip: the wait is not skipped on the first iteration
SkipWait_Never(n) == FALSE

\* slip: no iteration waits
SkipWait_Always(n) == TRUE

\* if i != 0 { wait }
SkipWait(n) == n = 0

\* slip: a zero Delay starts a timer too
NeedsTimer_NonNegative(c) == c.Delay >= 0 \/ c.delayFn # Nil

\* if cfg.Delay > 0 || cfg.delayFn != nil
NeedsTimer(c) == c.Delay > 0 \/ c.delayFn # Nil

\* slip: the delay function is given the 1-based number of the next attempt
DelayFnArg_Upcoming(n) == n + 1

\* cfg.delayFn(i)
DelayFnArg(n) == n

\* slip: a positive fixed Delay wins over the delay function
WaitDelay_FixedFirst(c, n) ==
  IF c.Delay > 0 THEN c.Delay
  ELSE IF c.delayFn # Nil THEN Max(0, DelayFnApply(c.delayFn, n))
  ELSE c.Delay

\* slip: the fixed Delay is multiplied by the attempt number
WaitDelay_Scaled(c, n) ==
  IF c.delayFn # Nil THEN Max(0, DelayFnApply(c.delayFn, n))
  ELSE c.Delay * n

\* delay := cfg.Delay; if cfg.delayFn != nil { delay = max(0, cfg.delayFn(i)) }
WaitDelay(c, n) ==
  IF c.delayFn # Nil THEN Max(0, DelayFnApply(c.delayFn, DelayFnArg(n)))
  ELSE c.Delay

\* slip: the abort returns an error of the executor's own
CtxAbortErr_Own(lastErr, cerr) == "retry: aborted"

\* err = ctx.Err(); break retryLoop
CtxAbortErr(lastErr, cerr) == cerr

\* slip: a break without the label leaves only the select, and fn() follows
BreakTarget_Select(label) == "fn"

\* break retryLoop: the labelled break leaves the loop, to return err
BreakTarget(label) == IF label = "retryLoop" THEN "return" ELSE "fn"

\* slip: a timer that has just run out is not seen as fired
TimerFired_Strict(left) == left < 0

\* case <-timer.C: the timer has fired once no time is left on it
TimerFired(left) == left <= 0

\* slip: the break after a false verdict is missing
ShouldContinue_Always(c, e) == TRUE

\* if cfg.RetryOn(err) { continue }; break
ShouldContinue(c, e) == RetryOnApply(c.RetryOn, e)

\* slip: a done ctx overrides the outcome on return
ReturnErr_CtxWins(e, done, cerr) == IF done THEN cerr ELSE e

\* return err
ReturnErr(e, done, cerr) == e

\* slip: only the first value produced is kept
WrapVal_First(f, old, v, e) ==
  IF f = "FuncVal" /\ old = ZeroVal THEN v ELSE old

\* slip: the value of a failed attempt is not kept
WrapVal_OnSuccess(f, old, v, e) ==
  IF f = "FuncVal" /\ e = NoErr THEN v ELSE old

\* FuncVal: wrap := func() error { var err error; val, err = fn(); return err }
WrapVal(f, old, v, e) == IF f = "FuncVal" THEN v ELSE old

\* slip: the receiver is updated in place and then copied
WithDelayFunc_InPlace(c, fn) ==
  [recv |-> [c EXCEPT !.delayFn = fn], result |-> [c EXCEPT !.delayFn = fn]]

\* func (c *Config) WithDelayFunc(fn) Config: receiver afterwards, and result
WithDelayFunc(c, fn) == [recv |-> c, result |-> [c EXCEPT !.delayFn = fn]]

\* ------------------------------------- FuncVal of part_001 (its own loop)
\* slip: the copied fast path forgets the MaxAttempts test
FastPath001_NilOnly(c) == c.RetryOn = Nil

\* part_001, FuncVal: if cfg.RetryOn == nil || cfg.MaxAttempts < 1 { return fn() }
FastPath001(c) == c.RetryOn = Nil \/ c.MaxAttempts < 1

\* part_001, FuncVal: for i := range cfg.MaxAttempts
InRange001(n, c) == n < c.MaxAttempts

\* part_001, FuncVal: if i != 0 { wait }
SkipWait001(n) == n = 0

\* part_001, FuncVal: if cfg.Delay > 0 || cfg.delayFn != nil
NeedsTimer001(c) == c.Delay > 0 \/ c.delayFn # Nil

\* part_001, FuncVal: delay := cfg.Delay; if cfg.delayFn != nil { delay = max(0, cfg.delayFn(i)) }
WaitDelay001(c, n) ==
  IF c.delayFn # Nil THEN Max(0, DelayFnApply(c.delayFn, n)) ELSE c.Delay

\* part_001, FuncVal: if cfg.RetryOn(err) { continue }; break
ShouldContinue001(c, e) == RetryOnApply(c.RetryOn, e)

\* ------------------------------------------------ a run held in a record
\* A second run next to the one in the variables: the same steps, on a record
\* r, of Func of pkg.go (impl "pkg") or of FuncVal of part_001 (impl "001").
\* env is what the run sees of its surroundings: ctx and the clock.
\* log says whether the run's history is kept in r.tr
Env(done, cerr, t, log) == [done |-> done, cerr |-> cerr, t |-> t, log |-> log]
REv(env, kind, n, e) ==
  IF env.log THEN <<[ev |-> kind, n |-> n, e |-> e, t |-> env.t, c |-> env.done]>>
  ELSE <<>>
RCalls(r) == r.calls
\* case <-ctx.Done(): err = ctx.Err()
RAbortErr(r, env) ==
  IF r.impl = "pkg" THEN CtxAbortErr(r.err, env.cerr) ELSE env.cerr
Diverged(r) == [r EXCEPT !.pc = "diverged"]

IdleRun ==
  [pc |-> "idle", impl |-> "pkg", form |-> "Func", cfg |-> cfg, i |-> 0,
   err |-> NoErr, val |-> ZeroVal, timer |-> 0, calls |-> 0, tr |-> <<>>,
   ret |-> NoErr, retVal |-> ZeroVal]

RFastPath(r) == IF r.impl = "pkg" THEN FastPath(r.cfg) ELSE FastPath001(r.cfg)
RInRange(r) == IF r.impl = "pkg" THEN InRange(r.i, r.cfg) ELSE InRange001(r.i, r.cfg)
RSkipWait(r) == IF r.impl = "pkg" THEN SkipWait(r.i) ELSE SkipWait001(r.i)
RNeedsTimer(r) == IF r.impl = "pkg" THEN NeedsTimer(r.cfg) ELSE NeedsTimer001(r.cfg)
RWaitDelay(r) ==
  IF r.impl = "pkg" THEN WaitDelay(r.cfg, r.i) ELSE WaitDelay001(r.cfg, r.i)
RShouldContinue(r, e) ==
  IF r.impl = "pkg" THEN ShouldContinue(r.cfg, e) ELSE ShouldContinue001(r.cfg, e)

\* fn() is invoked
RInvoke(r, env, pre) ==
  [r EXCEPT !.pc = "fn", !.calls = r.calls + 1,
            !.tr = r.tr \o pre \o REv(env, "fn", RCalls(r) + 1, NoErr)]

\* return err / return val, err
RReturn(r, env, pre, e) ==
  [r EXCEPT !.pc = "done", !.err = e, !.ret = e, !.retVal = r.val,
            !.tr = r.tr \o pre \o REv(env, "return", 0, e)]

\* Func(ctx, c, fn) / FuncVal(ctx, c, fn) is called
RCall(impl, f, c, env) ==
  LET r == [IdleRun EXCEPT !.impl = impl, !.form = f, !.cfg = c]
  IN IF RFastPath(r) THEN RInvoke(r, env, <<>>) ELSE [r EXCEPT !.pc = "iter"]

RLoopEnd(r, env) ==
  IF r.pc = "iter" /\ ~RInRange(r) THEN RReturn(r, env, <<>>, r.err)
  ELSE Diverged(r)

RFirstAttempt(r, env) ==
  IF r.pc = "iter" /\ RInRange(r) /\ RSkipWait(r) THEN RInvoke(r, env, <<>>)
  ELSE Diverged(r)

RStartTimer(r, env) ==
  IF r.pc = "iter" /\ RInRange(r) /\ ~RSkipWait(r) /\ RNeedsTimer(r)
    THEN [r EXCEPT
            !.pc = "select",
            !.timer = RWaitDelay(r),
            !.tr = r.tr \o
                   (IF r.cfg.delayFn # Nil
                      THEN REv(env, "delayFn", r.i, r.cfg.delayFn) ELSE <<>>)
                   \o REv(env, "timer", RWaitDelay(r), NoErr)]
    ELSE Diverged(r)

RPollCtx(r, env) ==
  IF r.pc = "iter" /\ RInRange(r) /\ ~RSkipWait(r) /\ ~RNeedsTimer(r)
    THEN IF env.done
           THEN RReturn(r, env, REv(env, "poll", 1, env.cerr), RAbortErr(r, env))
           ELSE RInvoke(r, env, REv(env, "poll", 0, NoErr))
    ELSE Diverged(r)

RSelectCtxDone(r, env) ==
  IF r.pc = "select" /\ env.done
    THEN RReturn(r, env, REv(env, "ctxDone", 0, env.cerr), RAbortErr(r, env))
    ELSE Diverged(r)

RSelectTimerC(r, env) ==
  IF r.pc = "select" /\ TimerFired(r.timer)
    THEN RInvoke(r, env, REv(env, "timerC", 0, NoErr))
    ELSE Diverged(r)

\* the value the run's own fn produces: its call count, in the FuncVal form
RFnVal(r) == IF r.form = "FuncVal" THEN RCalls(r) ELSE ZeroVal

RFnReturn(r, env, e) ==
  IF r.pc # "fn" THEN Diverged(r)
  ELSE
    LET v == RFnVal(r)
        r1 == [r EXCEPT !.err = e,
                        !.val = IF r.impl = "pkg" THEN WrapVal(r.form, r.val, v, e)
                                ELSE v]
    IN IF RFastPath(r)
         THEN RReturn(r1, env, REv(env, "fnret", v, e), e)
         ELSE IF RShouldContinue(r, e)
           THEN [r1 EXCEPT !.pc = "iter", !.i = r.i + 1,
                           !.tr = r.tr \o REv(env, "fnret", v, e)
                                       \o REv(env, "RetryOn", 1, e)]
           ELSE RReturn(r1, env,
                        REv(env, "fnret", v, e) \o REv(env, "RetryOn", 0, e), e)

\* time passes for the run
RTick(r) ==
  IF r.pc = "select" /\ r.timer > 0 THEN [r EXCEPT !.timer = r.timer - 1] ELSE r


\* ------------------------------------------------------------------- Init
\* the names of the concurrent runs
Runs == {"a", "b"}

\* nothing has been called yet
InitRun ==
  /\ derived = <<>>
  /\ ctxDone = FALSE
  /\ ctxErr = NoErr
  /\ pc = "idle"
  /\ form = "Func"
  /\ runCfg = cfg
  /\ i = 0
  /\ err = NoErr
  /\ val = ZeroVal
  /\ timer = 0
  /\ opTime = 0
  /\ now = 0
  /\ trace = <<>>
  /\ ret = NoErr
  /\ retVal = ZeroVal
  /\ fnArg = Nil
  /\ runFrom = "none"
  /\ ctxAtCall = FALSE
  /\ alt = IdleRun
  /\ runs = [k \in Runs |-> IdleRun]
  /\ ctxs = [k \in Runs |-> [done |-> FALSE, err |-> NoErr]]

\* cfg is built by a struct literal: delayFn is unexported, hence nil
Init ==
  /\ cfg \in {c \in Configs : c.delayFn = Nil}
  /\ InitRun

runVars == <<pc, form, runCfg, i, err, val, timer, opTime, trace, ret, retVal, runFrom,
             alt>>

conc == <<runs, ctxs>>

\* what a run sees of its surroundings now
CurEnv == Env(ctxDone, ctxErr, now, TRUE)
hist == <<fnArg, runFrom, ctxAtCall>>

\* ---------------------------------------------------------------- actions
\* caller: derived := cfg.WithDelayFunc(fn)
DoWithDelayFunc(fn) ==
  /\ pc = "idle"
  /\ derived = <<>>
  /\ cfg' = WithDelayFunc(cfg, fn).recv
  /\ derived' = <<WithDelayFunc(cfg, fn).result>>
  /\ fnArg' = fn
  /\ UNCHANGED <<ctxDone, ctxErr, now, runVars, ctxAtCall>>
  /\ UNCHANGED conc

\* caller: cancel()
Cancel(e) ==
  /\ ~ctxDone
  /\ pc # "done"
  /\ ctxDone' = TRUE
  /\ ctxErr' = e
  /\ UNCHANGED <<cfg, derived, now, runVars, fnArg, ctxAtCall>>
  /\ UNCHANGED conc

\* the number of calls of fn made so far
Calls == Cardinality({k \in 1..Len(trace) : trace[k].ev = "fn"})

\* fn() is invoked
Invoke ==
  /\ pc' = "fn"
  /\ trace' = Append(trace, Ev("fn", Calls + 1, NoErr))

\* the run returns
Return(e) ==
  /\ pc' = "done"
  /\ ret' = ReturnErr(e, ctxDone, ctxErr)
  /\ retVal' = val

\* the Config values the caller holds
Held == [cfg |-> <<cfg>>, derived |-> derived]

\* caller: Func(ctx, c, fn) or FuncVal(ctx, c, fn), c being cfg or derived
Call(f, src) ==
  /\ pc = "idle"
  /\ Held[src] # <<>>
  /\ form' = f
  /\ runFrom' = src
  /\ runCfg' = Held[src][1]
  /\ ctxAtCall' = ctxDone
  /\ i' = 0
  /\ IF FastPath(Held[src][1])
       THEN Invoke
       ELSE pc' = "iter" /\ UNCHANGED trace
  /\ UNCHANGED <<cfg, derived, ctxDone, ctxErr, now, err, val, timer, opTime, ret,
                 retVal, fnArg>>
  /\ alt' = RCall("001", "FuncVal", Held[src][1], CurEnv)
  /\ UNCHANGED conc

\* the range loop is exhausted: return err
LoopEnd ==
  /\ pc = "iter"
  /\ ~InRange(i, runCfg)
  /\ Return(err)
  /\ trace' = Append(trace, Ev("return", 0, ReturnErr(err, ctxDone, ctxErr)))
  /\ UNCHANGED <<cfg, derived, ctxDone, ctxErr, now, form, runCfg, i, err, val,
                 timer, opTime, hist>>
  /\ alt' = RLoopEnd(alt, CurEnv)
  /\ UNCHANGED conc

\* i == 0: no wait, err = fn()
FirstAttempt ==
  /\ pc = "iter"
  /\ InRange(i, runCfg)
  /\ SkipWait(i)
  /\ Invoke
  /\ UNCHANGED <<cfg, derived, ctxDone, ctxErr, now, form, runCfg, i, err, val,
                 timer, opTime, ret, retVal, hist>>
  /\ alt' = RFirstAttempt(alt, CurEnv)
  /\ UNCHANGED conc

\* i != 0 with a delay: compute it, timer := time.NewTimer(delay), select
StartTimer ==
  /\ pc = "iter"
  /\ InRange(i, runCfg)
  /\ ~SkipWait(i)
  /\ NeedsTimer(runCfg)
  /\ timer' = WaitDelay(runCfg, i)
  /\ trace' = IF runCfg.delayFn # Nil
                THEN trace \o <<Ev("delayFn", DelayFnArg(i), runCfg.delayFn),
                                Ev("timer", WaitDelay(runCfg, i), NoErr)>>
                ELSE Append(trace, Ev("timer", WaitDelay(runCfg, i), NoErr))
  /\ pc' = "select"
  /\ UNCHANGED <<cfg, derived, ctxDone, ctxErr, now, form, runCfg, i, err, val,
                 opTime, ret, retVal, hist>>
  /\ alt' = RStartTimer(alt, CurEnv)
  /\ UNCHANGED conc

\* i != 0 without a delay: select { case <-ctx.Done(): ...; default: }
PollCtx ==
  /\ pc = "iter"
  /\ InRange(i, runCfg)
  /\ ~SkipWait(i)
  /\ ~NeedsTimer(runCfg)
  /\ IF ctxDone
       THEN /\ err' = CtxAbortErr(err, ctxErr)
            /\ IF BreakTarget("retryLoop") = "return"
                 THEN /\ Return(CtxAbortErr(err, ctxErr))
                      /\ trace' = trace \o
                           <<Ev("poll", 1, ctxErr),
                             Ev("return", 0,
                                ReturnErr(CtxAbortErr(err, ctxErr), ctxDone, ctxErr))>>
                 ELSE /\ pc' = "fn"
                      /\ trace' = trace \o
                           <<Ev("poll", 1, ctxErr), Ev("fn", Calls + 1, NoErr)>>
                      /\ UNCHANGED <<ret, retVal>>
       ELSE /\ pc' = "fn"
            /\ trace' = trace \o <<Ev("poll", 0, NoErr), Ev("fn", Calls + 1, NoErr)>>
            /\ UNCHANGED <<err, ret, retVal>>
  /\ UNCHANGED <<cfg, derived, ctxDone, ctxErr, now, form, runCfg, i, val, timer,
                 opTime, hist>>
  /\ alt' = RPollCtx(alt, CurEnv)
  /\ UNCHANGED conc

\* select: case <-ctx.Done(): timer.Stop(); err = ctx.Err(); break retryLoop
SelectCtxDone ==
  /\ pc = "select"
  /\ ctxDone
  /\ err' = CtxAbortErr(err, ctxErr)
  /\ IF BreakTarget("retryLoop") = "return"
       THEN /\ Return(CtxAbortErr(err, ctxErr))
            /\ trace' = trace \o
                 <<Ev("ctxDone", 0, ctxErr),
                   Ev("return", 0, ReturnErr(CtxAbortErr(err, ctxErr), ctxDone, ctxErr))>>
       ELSE /\ pc' = "fn"
            /\ trace' = trace \o <<Ev("ctxDone", 0, ctxErr), Ev("fn", Calls + 1, NoErr)>>
            /\ UNCHANGED <<ret, retVal>>
  /\ UNCHANGED <<cfg, derived, ctxDone, ctxErr, now, form, runCfg, i, val,
                 timer, opTime, hist>>
  /\ alt' = RSelectCtxDone(alt, CurEnv)
  /\ UNCHANGED conc

\* select: case <-timer.C: then err = fn()
SelectTimerC ==
  /\ pc = "select"
  /\ TimerFired(timer)
  /\ pc' = "fn"
  /\ trace' = trace \o <<Ev("timerC", 0, NoErr), Ev("fn", Calls + 1, NoErr)>>
  /\ UNCHANGED <<cfg, derived, ctxDone, ctxErr, now, form, runCfg, i, err, val,
                 timer, opTime, ret, retVal, hist>>
  /\ alt' = RSelectTimerC(alt, CurEnv)
  /\ UNCHANGED conc

\* the value fn produces in the FuncVal form: fn counts its calls and returns
\* the count (the closure of ExampleFuncVal), so a value names its attempt
FnVal == IF form = "FuncVal" THEN Calls ELSE ZeroVal

\* fn returns (v, e); fast path: return it; loop: if cfg.RetryOn(err) continue, else break
FnReturn(e, v) ==
  /\ pc = "fn"
  /\ err' = e
  /\ val' = WrapVal(form, val, v, e)
  /\ IF FastPath(runCfg)
       THEN /\ pc' = "done"
            /\ ret' = e
            /\ retVal' = val'
            /\ trace' = trace \o <<Ev("fnret", v, e), Ev("return", 0, e)>>
            /\ UNCHANGED i
       ELSE IF ShouldContinue(runCfg, e)
         THEN /\ pc' = "iter"
              /\ i' = i + 1
              /\ trace' = trace \o <<Ev("fnret", v, e), Ev("RetryOn", 1, e)>>
              /\ UNCHANGED <<ret, retVal>>
         ELSE /\ pc' = "done"
              /\ ret' = ReturnErr(e, ctxDone, ctxErr)
              /\ retVal' = val'
              /\ trace' = trace \o
                   <<Ev("fnret", v, e),
                     Ev("RetryOn", IF RetryOnApply(runCfg.RetryOn, e) THEN 1 ELSE 0, e),
                     Ev("return", 0, ReturnErr(e, ctxDone, ctxErr))>>
              /\ UNCHANGED i
  /\ UNCHANGED <<cfg, derived, ctxDone, ctxErr, now, form, runCfg, timer, opTime, hist>>
  /\ alt' = RFnReturn(alt, CurEnv, e)
  /\ UNCHANGED conc

\* time passes: only while fn is in flight or the select has no ready case
Tick ==
  /\ \/ pc = "fn" /\ opTime < MaxOpTime /\ opTime' = opTime + 1 /\ timer' = timer
     \/ pc = "select" /\ ~ctxDone /\ timer > 0 /\ timer' = timer - 1 /\ opTime' = opTime
  /\ now' = now + 1
  /\ UNCHANGED <<cfg, derived, ctxDone, ctxErr, pc, form, runCfg, i, err, val,
                 trace, ret, retVal, hist>>
  /\ alt' = RTick(alt)
  /\ UNCHANGED conc

Next ==
  \/ \E fn \in DelayFns : DoWithDelayFunc(fn)
  \/ \E e \in CtxErrs : Cancel(e)
  \/ \E f \in Forms : \E src \in {"cfg", "derived"} : Call(f, src)
  \/ LoopEnd
  \/ FirstAttempt
  \/ StartTimer
  \/ PollCtx
  \/ SelectCtxDone
  \/ SelectTimerC
  \/ \E e \in OpErrs : FnReturn(e, FnVal)
  \/ Tick

Spec == Init /\ [][Next]_vars

\* the run is one goroutine that the scheduler keeps running: each of its
\* steps is taken when it stays possible, every call of fn returns, and time
\* advances, so that a timer with time left eventually fires
SpecLive ==
  /\ Init /\ [][Next]_vars
  /\ WF_vars(LoopEnd)
  /\ WF_vars(FirstAttempt)
  /\ WF_vars(StartTimer)
  /\ WF_vars(PollCtx)
  /\ WF_vars(SelectCtxDone)
  /\ WF_vars(SelectTimerC)
  /\ WF_vars(\E e \in OpErrs : FnReturn(e, FnVal))
  /\ WF_vars(Tick)

\* ------------------------------------------------------- concurrent runs
\* Several goroutines call Func or FuncVal with the one Config value cfg, each
\* with its own fn and its own ctx. A run holds only locals (cfg by value, i,
\* err, timer, val), so each is a record of runs. The goroutines are scheduled
\* freely: any run may step, or have time pass for its timer, at any moment.

\* slip: the runs are all given the ctx of run "a"
RunEnv_Shared(k) == Env(ctxs["a"].done, ctxs["a"].err, 0, FALSE)

\* run k is called with its own ctx
RunEnv(k) == Env(ctxs[k].done, ctxs[k].err, 0, FALSE)

\* the Config of Init, or one that WithDelayFunc returned earlier
InitConc ==
  /\ cfg \in Configs
  /\ InitRun

main == <<cfg, derived, ctxDone, ctxErr, now, runVars, fnArg, ctxAtCall>>

\* one goroutine calls Func, the other FuncVal
RunForm(k) == IF k = "a" THEN "Func" ELSE "FuncVal"

\* goroutine k: Func(ctxk, cfg, fnk) or FuncVal(ctxk, cfg, fnk)
CallRun(k) ==
  /\ runs[k].pc = "idle"
  /\ runs' = [runs EXCEPT ![k] = RCall("pkg", RunForm(k), cfg, RunEnv(k))]
  /\ UNCHANGED <<main, ctxs>>

\* the owner of ctxk: cancel()
CancelRun(k, e) ==
  /\ ~ctxs[k].done
  /\ runs[k].pc # "done"
  /\ ctxs' = [ctxs EXCEPT ![k] = [done |-> TRUE, err |-> e]]
  /\ UNCHANGED <<main, runs>>

\* goroutine k takes the step that leads to r
StepRun(k, r) ==
  /\ r.pc # "diverged"
  /\ runs' = [runs EXCEPT ![k] = r]
  /\ UNCHANGED <<main, ctxs>>

\* time passes for the timer of run k
TickRun(k) ==
  /\ runs[k].pc = "select"
  /\ ~RunEnv(k).done
  /\ runs[k].timer > 0
  /\ runs' = [runs EXCEPT ![k] = RTick(runs[k])]
  /\ UNCHANGED <<main, ctxs>>

NextConc ==
  \/ \E k \in Runs : CallRun(k)
  \/ \E k \in Runs : \E e \in CtxErrs : CancelRun(k, e)
  \/ \E k \in Runs : StepRun(k, RLoopEnd(runs[k], RunEnv(k)))
  \/ \E k \in Runs : StepRun(k, RFirstAttempt(runs[k], RunEnv(k)))
  \/ \E k \in Runs : StepRun(k, RStartTimer(runs[k], RunEnv(k)))
  \/ \E k \in Runs : StepRun(k, RPollCtx(runs[k], RunEnv(k)))
  \/ \E k \in Runs : StepRun(k, RSelectCtxDone(runs[k], RunEnv(k)))
  \/ \E k \in Runs : StepRun(k, RSelectTimerC(runs[k], RunEnv(k)))
  \/ \E k \in Runs : \E e \in OpErrs : StepRun(k, RFnReturn(runs[k], RunEnv(k), e))
  \/ \E k \in Runs : TickRun(k)

SpecConc == InitConc /\ [][NextConc]_vars

\* ------------------------------------------------------- reading the trace
Idx(kind) == {k \in 1..Len(trace) : trace[k].ev = kind}
Count(kind) == Cardinality(Idx(kind))
FnRets == SelectSeq(trace, LAMBDA x : x.ev = "fnret")
Waits == Count("timer") + Count("poll")
Returned == pc = "done"

\* ------------------------------------------------------------------ claims
\* C1: with RetryOn nil or MaxAttempts < 1, whatever the state of ctx, the
\* operation is invoked exactly once, its outcome is returned unchanged, and
\* neither RetryOn nor the delay function is called, nor any wait performed.
C1_Degenerate ==
  (pc # "idle" /\ (runCfg.RetryOn = Nil \/ runCfg.MaxAttempts < 1)) =>
    /\ Count("fn") = 1
    /\ Count("RetryOn") = 0
    /\ Count("delayFn") = 0
    /\ Waits = 0
    /\ Count("ctxDone") = 0
    /\ pc \in {"fn", "done"}
    /\ Returned =>
         /\ Len(FnRets) = 1
         /\ ret = FnRets[1].e
         /\ form = "FuncVal" => retVal = FnRets[1].n

\* a degenerate run (predicate set, MaxAttempts < 1, delay function set) has
\* returned the operation's error although ctx was done before the call
C1_Witness ==
  /\ Returned
  /\ runCfg.RetryOn = "unlessBang" /\ runCfg.MaxAttempts < 1 /\ runCfg.delayFn = "lin"
  /\ ctxAtCall
  /\ form = "FuncVal" /\ ret = "boom" /\ retVal = 1

\* the predicate of the run is set and the main loop is entered
MainLoop == runCfg.RetryOn # Nil /\ runCfg.MaxAttempts >= 1
LastIdx(kind) == CHOOSE k \in Idx(kind) : \A j \in Idx(kind) : j <= k
FnsBefore(p) == Cardinality({k \in Idx("fn") : k < p})
RetsBefore(p) == Cardinality({k \in Idx("fnret") : k < p})
Aborts == Idx("ctxDone") \cup {k \in Idx("poll") : trace[k].n = 1}
DelayCalls == SelectSeq(trace, LAMBDA x : x.ev = "delayFn")

\* C2: MaxAttempts = N >= 1, a predicate true for every error, an operation
\* that fails every time and a ctx that is never done: the operation is
\* invoked exactly N times and the error of the N-th invocation is returned.
C2_Exhaustion ==
  ( /\ Returned
    /\ MainLoop
    /\ \A e \in OpErrs \ {NoErr} : RetryOnApply(runCfg.RetryOn, e)
    /\ \A k \in 1..Len(FnRets) : FnRets[k].e # NoErr
    /\ ~ctxDone ) =>
    /\ Count("fn") = runCfg.MaxAttempts
    /\ Len(FnRets) = runCfg.MaxAttempts
    /\ ret = FnRets[runCfg.MaxAttempts].e

\* three failing attempts out of three, the third error returned
C2_Witness ==
  /\ Returned /\ ~ctxDone
  /\ runCfg.MaxAttempts = 3 /\ runCfg.RetryOn = "onErr"
  /\ Len(FnRets) = 3
  /\ FnRets[1].e = "boom" /\ FnRets[2].e = "boom" /\ FnRets[3].e = "bang"
  /\ ret = "bang"

\* C3: in the main loop, once the K-th invocation's error is classified as
\* not retryable, exactly K invocations and K-1 waits have occurred, nothing
\* follows, and the run has returned the K-th invocation's error.
C3_StopOnTerminal ==
  \A K \in 1..Len(FnRets) :
    (MainLoop /\ ~RetryOnApply(runCfg.RetryOn, FnRets[K].e)) =>
      /\ K = Len(FnRets)
      /\ K <= runCfg.MaxAttempts
      /\ Count("fn") = K
      /\ Waits = K - 1
      /\ Returned
      /\ ret = FnRets[K].e
      /\ trace[Len(trace)].ev = "return"

\* the second of three allowed attempts fails with an error that is not retryable
C3_Witness ==
  /\ Returned
  /\ runCfg.MaxAttempts = 3 /\ runCfg.RetryOn = "onBoom"
  /\ Len(FnRets) = 2 /\ FnRets[1].e = "boom" /\ FnRets[2].e = "bang"
  /\ Waits = 1 /\ ret = "bang"

\* C4: the operation is invoked at least once and at most max(1, MaxAttempts)
\* times, and nothing (no wait, no look at ctx) precedes the first invocation.
C4_InvocationBounds ==
  /\ pc # "idle" => Count("fn") <= Max(1, runCfg.MaxAttempts)
  /\ Returned => Count("fn") >= 1
  /\ trace # <<>> => trace[1].ev = "fn"

\* ctx was done before the call, yet the operation ran once
C4_Witness ==
  /\ Returned /\ ctxAtCall
  /\ runCfg.MaxAttempts = 3 /\ Count("fn") = 1 /\ ret \in CtxErrs

\* C5: ctx done before the run, predicate set, MaxAttempts > 1, any delay
\* configuration, first error retryable: exactly one invocation, and the
\* error of ctx is returned.
C5_CancelledAtStart ==
  ( /\ pc # "idle"
    /\ ctxAtCall
    /\ runCfg.RetryOn # Nil /\ runCfg.MaxAttempts > 1
    /\ Len(FnRets) >= 1
    /\ RetryOnApply(runCfg.RetryOn, FnRets[1].e) ) =>
    /\ Count("fn") = 1
    /\ Returned => ret = ctxErr

\* C6: when the predicate returns false for an invocation's error, the run
\* returns that error even if ctx is done, and ctx is not looked at afterwards.
C6_TerminalNotOverridden ==
  ( /\ Returned
    /\ MainLoop
    /\ Len(FnRets) >= 1
    /\ ~RetryOnApply(runCfg.RetryOn, FnRets[Len(FnRets)].e) ) =>
    /\ ret = FnRets[Len(FnRets)].e
    /\ \A k \in Idx("poll") \cup Idx("ctxDone") : k < LastIdx("fnret")

\* ctx became done during the second invocation, whose error is terminal
C6_Witness ==
  /\ Returned /\ ctxDone
  /\ runCfg.RetryOn = "onBoom"
  /\ Len(FnRets) = 2
  /\ ~trace[LastIdx("fn")].c /\ trace[LastIdx("RetryOn")].c
  /\ ret = "bang"

\* C7: a run returns either the most recent invocation's error, or the error
\* of ctx; the latter exactly when ctx, done by then, ended an inter-attempt
\* wait and the attempt after that wait was not invoked.
C7_ErrorTaxonomy ==
  Returned =>
    \/ /\ Len(FnRets) >= 1
       /\ ret = FnRets[Len(FnRets)].e
       /\ Aborts = {}
    \/ /\ ctxDone
       /\ ret = ctxErr
       /\ ret \in CtxErrs
       /\ Aborts = {Len(trace) - 1}
       /\ trace[Len(trace) - 1].c
       /\ i >= 1 /\ i < runCfg.MaxAttempts
       /\ Count("fn") = i
       /\ Len(FnRets) = i

\* a timed wait before the third attempt was ended by ctx
C7_Witness ==
  /\ Returned
  /\ runCfg.MaxAttempts = 3 /\ Count("fn") = 2
  /\ trace[Len(trace) - 1].ev = "ctxDone"
  /\ ~trace[Len(trace) - 2].c
  /\ ret = "context canceled"

\* C8: the k-th call of the delay function has argument k, comes after the
\* k-th invocation has returned and before the (k+1)-th, and belongs to one
\* wait; the argument is never 0 and never >= MaxAttempts; an uncancelled run
\* of N retryable outcomes calls it exactly N-1 times.
C8_DelayFnCalls ==
  /\ \A k \in 1..Len(DelayCalls) :
       DelayCalls[k].n = k /\ k >= 1 /\ k < runCfg.MaxAttempts
  /\ \A p \in Idx("delayFn") :
       /\ FnsBefore(p) = trace[p].n
       /\ RetsBefore(p) = trace[p].n
       /\ p < Len(trace) /\ trace[p + 1].ev = "timer"
  /\ Count("delayFn") = (IF runCfg.delayFn # Nil THEN Count("timer") ELSE 0)
  /\ ( /\ Returned /\ MainLoop /\ runCfg.delayFn # Nil /\ ~ctxDone
       /\ \A k \in 1..Len(FnRets) : RetryOnApply(runCfg.RetryOn, FnRets[k].e) ) =>
       Len(DelayCalls) = runCfg.MaxAttempts - 1

\* three attempts, the delay function called with 1 then 2
C8_Witness ==
  /\ Returned /\ ~ctxDone
  /\ runCfg.MaxAttempts = 3 /\ runCfg.delayFn = "lin"
  /\ Count("fn") = 3
  /\ Len(DelayCalls) = 2 /\ DelayCalls[1].n = 1 /\ DelayCalls[2].n = 2

\* C9: WithDelayFunc leaves the receiver as it was and returns a Config equal
\* to it in MaxAttempts, RetryOn and Delay, with fn as delay function; a run
\* given the receiver afterwards runs on the unchanged value and never calls fn.
C9_CopyOnDerive ==
  /\ [][ (derived = <<>> /\ derived' # <<>>) =>
           /\ cfg' = cfg
           /\ derived'[1].MaxAttempts = cfg.MaxAttempts
           /\ derived'[1].RetryOn = cfg.RetryOn
           /\ derived'[1].Delay = cfg.Delay
           /\ derived'[1].delayFn = fnArg' ]_vars
  /\ []( (derived # <<>> /\ runFrom = "cfg") =>
           /\ runCfg = cfg
           /\ cfg.delayFn = Nil
           /\ Count("delayFn") = 0 )

\* after deriving a variant with "lin", the original ran three attempts with
\* non-blocking waits only
C9_Witness ==
  /\ Returned /\ derived # <<>> /\ fnArg = "lin" /\ runFrom = "cfg"
  /\ cfg.Delay = 0 /\ Count("fn") = 3 /\ Count("poll") = 2 /\ Count("timer") = 0

\* C10: a timed wait before the attempt of loop index k lasts
\* max(0, delayFn(k)) when a delay function is set, whatever the fixed Delay;
\* without a delay function and with Delay > 0 every wait is timed and lasts Delay.
C10_WaitDuration ==
  /\ \A p \in Idx("timerC") :
       LET k == FnsBefore(p)
           waited == trace[p].t - trace[p - 1].t
       IN /\ trace[p - 1].ev = "timer"
          /\ k >= 1
          /\ runCfg.delayFn # Nil =>
               waited = Max(0, DelayFnApply(runCfg.delayFn, k))
          /\ runCfg.delayFn = Nil =>
               runCfg.Delay > 0 /\ waited = runCfg.Delay
  /\ (runCfg.delayFn = Nil /\ runCfg.Delay > 0) => Count("poll") = 0

\* a positive fixed Delay and a delay function with results 0 and -1: two
\* waits of no time
C10_Witness ==
  /\ Returned
  /\ runCfg.Delay = 1 /\ runCfg.delayFn = "dec"
  /\ Count("timerC") = 2 /\ Count("fn") = 3
  /\ now = 0

\* C11: fixed Delay d > 0, no delay function, an operation that takes no time
\* and always fails with a retryable error, ctx never done: the k-th
\* invocation starts at time (k-1)*d, and the run returns at time
\* (MaxAttempts-1)*d, so no wait follows the last invocation.
C11_FixedDelaySchedule ==
  ( /\ MainLoop
    /\ runCfg.delayFn = Nil /\ runCfg.Delay > 0
    /\ opTime = 0
    /\ ~ctxDone
    /\ \A k \in 1..Len(FnRets) :
         FnRets[k].e # NoErr /\ RetryOnApply(runCfg.RetryOn, FnRets[k].e) ) =>
    /\ \A p \in Idx("fn") : trace[p].t = (trace[p].n - 1) * runCfg.Delay
    /\ Returned =>
         /\ Count("fn") = runCfg.MaxAttempts
         /\ trace[Len(trace)].ev = "return"
         /\ trace[Len(trace)].t = (runCfg.MaxAttempts - 1) * runCfg.Delay
         /\ now = (runCfg.MaxAttempts - 1) * runCfg.Delay

\* three attempts at times 0, d, 2d and the return at 2d
C11_Witness ==
  /\ Returned /\ ~ctxDone /\ opTime = 0
  /\ runCfg.MaxAttempts = 3 /\ runCfg.delayFn = Nil /\ runCfg.Delay = 1
  /\ Len(FnRets) = 3 /\ \A k \in 1..3 : FnRets[k].e = "boom"
  /\ \E p \in Idx("fn") : trace[p].n = 3 /\ trace[p].t = 2
  /\ now = 2

\* C12 as stated: however a FuncVal run ends, the returned value and the
\* returned error are both those of the final attempt.
C12_FinalAttemptPair ==
  (Returned /\ form = "FuncVal") =>
    /\ Len(FnRets) >= 1
    /\ retVal = FnRets[Len(FnRets)].n
    /\ ret = FnRets[Len(FnRets)].e

\* C12 amended: however a FuncVal run ends, the returned value is that of the
\* final attempt; the returned error is that attempt's error, except when ctx
\* ended a wait: then it is the error of ctx, next to the final attempt's value.
C12_FinalValue ==
  (Returned /\ form = "FuncVal") =>
    /\ Len(FnRets) >= 1
    /\ retVal = FnRets[Len(FnRets)].n
    /\ Aborts = {} => ret = FnRets[Len(FnRets)].e
    /\ Aborts # {} => ret = ctxErr /\ ret # FnRets[Len(FnRets)].e

\* a FuncVal run ended by ctx after its second attempt: value 2, error of ctx
C12_Witness ==
  /\ Returned /\ form = "FuncVal"
  /\ Aborts # {}
  /\ Len(FnRets) = 2 /\ FnRets[2].e = "boom"
  /\ retVal = 2 /\ ret = "context canceled"

\* the first M attempts failed with retryable errors and attempt M+1 succeeded
SucceedsAfter(M) ==
  /\ M + 1 <= Len(FnRets)
  /\ M + 1 <= runCfg.MaxAttempts
  /\ \A k \in 1..M :
       FnRets[k].e # NoErr /\ RetryOnApply(runCfg.RetryOn, FnRets[k].e)
  /\ FnRets[M + 1].e = NoErr

\* C13 as stated: FuncVal, no cancellation, M retryable failures then a
\* success at attempt M+1 <= MaxAttempts: the value of attempt M+1 and a nil
\* error are returned.
C13_ValueOnSuccess ==
  \A M \in 0..Len(FnRets) :
    (Returned /\ form = "FuncVal" /\ ~ctxDone /\ SucceedsAfter(M)) =>
      retVal = FnRets[M + 1].n /\ ret = NoErr

\* C13 amended: the same, provided the success ends the run, that is the
\* predicate returns false for a nil error or M+1 = MaxAttempts; then attempt
\* M+1 is the last one and no earlier value is returned.
C13_ValueOnFinalSuccess ==
  \A M \in 0..Len(FnRets) :
    ( /\ Returned /\ form = "FuncVal" /\ ~ctxDone /\ SucceedsAfter(M)
      /\ ~RetryOnApply(runCfg.RetryOn, NoErr) \/ M + 1 = runCfg.MaxAttempts ) =>
      /\ Len(FnRets) = M + 1
      /\ retVal = FnRets[M + 1].n
      /\ retVal = M + 1
      /\ ret = NoErr

\* two retryable failures, then success at the third attempt: value 3, nil
C13_Witness ==
  /\ Returned /\ form = "FuncVal" /\ ~ctxDone
  /\ runCfg.RetryOn = "onErr" /\ runCfg.MaxAttempts = 3
  /\ SucceedsAfter(2)
  /\ retVal = 3 /\ ret = NoErr

\* C15: a timed wait ends in exactly one of two ways.  Ended by ctx: the
\* operation is not invoked for that iteration nor later, and the run returns
\* the error of ctx.  Ended by the timer: the operation is invoked exactly once
\* for that iteration.  While ctx is not done no wait is ended by ctx.
C15_BlockingWaitRace ==
  /\ \A p \in Idx("timer") :
       IF p = Len(trace) THEN pc = "select"
       ELSE \/ /\ trace[p + 1].ev = "ctxDone"
               /\ trace[p + 1].c
               /\ Len(trace) = p + 2 /\ trace[p + 2].ev = "return"
               /\ Returned /\ ret = ctxErr /\ ret \in CtxErrs
               /\ Count("fn") = FnsBefore(p)
            \/ /\ trace[p + 1].ev = "timerC"
               /\ trace[p + 2].ev = "fn"
               /\ trace[p + 2].n = FnsBefore(p) + 1
               /\ \A q \in Idx("fn") :
                    q > p + 2 => \E p2 \in Idx("timer") \cup Idx("poll") : p < p2 /\ p2 < q
  /\ pc = "select" => trace[Len(trace)].ev = "timer"
  /\ ~ctxDone => Idx("ctxDone") = {}

\* one timed wait ended by its timer, the next one by ctx
C15_Witness ==
  /\ Returned
  /\ runCfg.Delay = 1 /\ runCfg.delayFn = Nil
  /\ Count("timerC") = 1 /\ Count("ctxDone") = 1 /\ Count("fn") = 2
  /\ ret = "context canceled"

\* C16: with no delay function and a fixed Delay that is not positive, every
\* inter-attempt wait is a look at ctx that takes no time: ctx done at that
\* instant ends the run with the error of ctx and without an invocation,
\* otherwise the invocation follows at once, whatever ctx does later.
C16_NonBlockingCheck ==
  (pc # "idle" /\ MainLoop /\ runCfg.delayFn = Nil /\ runCfg.Delay <= 0) =>
    /\ Idx("timer") = {} /\ Idx("ctxDone") = {} /\ pc # "select"
    /\ now = opTime
    /\ \A p \in Idx("poll") :
         /\ trace[p - 1].ev = "RetryOn" /\ trace[p].t = trace[p - 1].t
         /\ (trace[p].n = 1) <=> trace[p].c
         /\ trace[p].n = 1 =>
              /\ Len(trace) = p + 1 /\ trace[p + 1].ev = "return"
              /\ Returned /\ ret = ctxErr /\ ret \in CtxErrs
              /\ Count("fn") = FnsBefore(p)
         /\ trace[p].n = 0 =>
              /\ trace[p + 1].ev = "fn" /\ trace[p + 1].t = trace[p].t
              /\ trace[p + 1].n = FnsBefore(p) + 1
    /\ \A q \in Idx("fn") : trace[q].n > 1 => trace[q - 1].ev = "poll"

\* the first wait found ctx not done, ctx became done during the second
\* attempt, which completed, and the second wait ended the run
C16_Witness ==
  /\ Returned
  /\ runCfg.delayFn = Nil /\ runCfg.Delay = 0 /\ runCfg.MaxAttempts = 3
  /\ Count("poll") = 2 /\ Count("fn") = 2 /\ Len(FnRets) = 2
  /\ \E p \in Idx("fn") : trace[p].n = 2 /\ ~trace[p].c
  /\ ret = "context canceled"

\* the phases of the run, read from its history
InFlight == Count("fn") - Count("fnret")
Waiting == trace # <<>> /\ trace[Len(trace)].ev = "timer"

\* C17: the run is never both waiting and inside the operation, at most one
\* invocation is in flight, and invocation k+1 starts only after invocation k
\* has returned, the predicate has been evaluated once on its error and has
\* returned true, and the wait that follows has been ended by its timer or by
\* the non-blocking look at ctx.
C17_SequentialPhases ==
  /\ InFlight \in {0, 1}
  /\ (InFlight = 1) <=> (pc = "fn")
  /\ Waiting <=> (pc = "select")
  /\ ~(InFlight = 1 /\ Waiting)
  /\ \A p \in Idx("fn") : p < Len(trace) => trace[p + 1].ev = "fnret"
  /\ Count("RetryOn") = (IF MainLoop THEN Len(FnRets) ELSE 0)
  /\ \A q \in Idx("fn") :
       trace[q].n > 1 =>
         LET k == trace[q].n - 1
             r == CHOOSE x \in Idx("fnret") :
                    x < q /\ \A y \in Idx("fnret") : y < q => y <= x
         IN /\ RetsBefore(q) = k /\ FnsBefore(q) = k
            /\ trace[r + 1].ev = "RetryOn"
            /\ trace[r + 1].n = 1 /\ trace[r + 1].e = trace[r].e
            /\ \A x \in (r + 2)..(q - 1) : trace[x].ev # "RetryOn"
            /\ \/ trace[q - 1].ev = "timerC" /\ trace[q - 2].ev = "timer"
               \/ trace[q - 1].ev = "poll" /\ trace[q - 1].n = 0
            /\ \A x \in (r + 2)..(q - 1) :
                 trace[x].ev \in {"delayFn", "timer", "timerC", "poll"}

\* three attempts separated by two timed waits
C17_Witness ==
  /\ Returned
  /\ runCfg.delayFn = "lin"
  /\ Count("fn") = 3 /\ Len(FnRets) = 3 /\ Count("RetryOn") = 3
  /\ Count("timerC") = 2

\* C18: when ctx becomes done while the operation is running, the invocation
\* completes and its error is classified; if the verdict is false or this was
\* the last allowed attempt, the run returns that invocation's error and ctx
\* is never looked at; otherwise ctx is looked at only at the next wait.
C18_CancelInFlight ==
  \A p \in Idx("fn") :
    (MainLoop /\ ~trace[p].c /\ p < Len(trace) /\ trace[p + 1].c) =>
      /\ trace[p + 1].ev = "fnret"
      /\ trace[p + 2].ev = "RetryOn" /\ trace[p + 2].e = trace[p + 1].e
      /\ (trace[p + 2].n = 1) <=> RetryOnApply(runCfg.RetryOn, trace[p + 1].e)
      /\ (trace[p + 2].n = 0 \/ trace[p].n = runCfg.MaxAttempts) =>
           /\ Aborts = {}
           /\ Count("fn") = trace[p].n
           /\ Returned => ret = trace[p + 1].e
      /\ \A a \in Aborts :
           /\ a > p + 2
           /\ trace[a].ev = "poll" => a = p + 3
           /\ trace[a].ev = "ctxDone" => trace[a - 1].ev = "timer"

\* ctx became done during the second and last allowed attempt, whose
\* retryable error is returned
C18_Witness ==
  /\ Returned
  /\ runCfg.MaxAttempts = 2 /\ runCfg.RetryOn = "onErr"
  /\ Count("fn") = 2
  /\ ~trace[LastIdx("fn")].c /\ trace[LastIdx("fnret")].c
  /\ ret = "boom"

\* C20: if every call of fn returns and every timer fires, every run of Func
\* or FuncVal that was called eventually returns, whatever the Config, the
\* predicate and the behaviour of ctx.
C20_Termination == (pc # "idle") ~> Returned

\* a run whose predicate retries a nil error has used all its attempts, with
\* timed waits in between, and returned
C20_Witness ==
  /\ Returned /\ ~ctxDone
  /\ runCfg.RetryOn = "unlessBang" /\ runCfg.delayFn = "lin" /\ runCfg.MaxAttempts = 3
  /\ Len(FnRets) = 3 /\ \A k \in 1..3 : FnRets[k].e = NoErr
  /\ now >= 3

\* ---------------------------------------------------------------------- C14
\* the history of a run with the carried values blanked
NoValues(tr) ==
  [k \in 1..Len(tr) |-> IF tr[k].ev = "fnret" THEN [tr[k] EXCEPT !.n = ZeroVal]
                        ELSE tr[k]]

\* the steps FuncVal of part_001 can take next are those the run can take
SameChoices ==
  /\ (ENABLED LoopEnd) <=> (RLoopEnd(alt, CurEnv).pc # "diverged")
  /\ (ENABLED FirstAttempt) <=> (RFirstAttempt(alt, CurEnv).pc # "diverged")
  /\ (ENABLED StartTimer) <=> (RStartTimer(alt, CurEnv).pc # "diverged")
  /\ (ENABLED PollCtx) <=> (RPollCtx(alt, CurEnv).pc # "diverged")
  /\ (ENABLED SelectCtxDone) <=> (RSelectCtxDone(alt, CurEnv).pc # "diverged")
  /\ (ENABLED SelectTimerC) <=> (RSelectTimerC(alt, CurEnv).pc # "diverged")
  /\ (ENABLED (\E e \in OpErrs : FnReturn(e, FnVal))) <=> (alt.pc = "fn")

\* C14: given the same Config, the same operation errors and the same
\* cancellation timing, FuncVal of part_001 (its own copy of the loop) stays
\* step for step with the run of pkg.go: same position, same choices open, same
\* invocations, waits, predicate and delay-function calls at the same instants,
\* same returned error; against FuncVal of pkg.go the values agree as well,
\* against Func of pkg.go everything but the values does. Both forms of pkg.go
\* thus match the one deterministic reference, so they differ from each other
\* only in the carried value. The fast path is included.
C14_SameBehaviour ==
  /\ alt.pc = pc
  /\ alt.ret = ret
  /\ alt.err = err
  /\ alt.i = i
  /\ pc = "select" => alt.timer = timer
  /\ NoValues(alt.tr) = NoValues(trace)
  /\ form = "FuncVal" => alt.tr = trace /\ alt.val = val /\ alt.retVal = retVal
  /\ form = "Func" => val = ZeroVal /\ retVal = ZeroVal
  /\ SameChoices

\* a FuncVal run that retried after a wait and was then aborted, carrying the
\* value of its last attempt, and the copy of part_001 ended the same way
C14_Witness ==
  /\ pc = "done" /\ alt.pc = "done"
  /\ form = "FuncVal"
  /\ Count("timer") >= 1
  /\ ret \in CtxErrs /\ alt.ret = ret
  /\ retVal >= 2 /\ alt.retVal = retVal

\* ---------------------------------------------------------------------- C19
\* what run r can do next when it runs alone with ctx c
Alone(r, c) ==
  LET env == Env(c.done, c.err, 0, FALSE)
  IN ({RLoopEnd(r, env), RFirstAttempt(r, env), RStartTimer(r, env),
       RPollCtx(r, env), RSelectCtxDone(r, env), RSelectTimerC(r, env), RTick(r)}
      \cup {RFnReturn(r, env, e) : e \in OpErrs}
      \cup (IF r.pc = "idle" THEN {RCall("pkg", f, cfg, env) : f \in Forms} ELSE {}))
     \ {Diverged(r)}

\* no step of the concurrent runs changes cfg; whatever one run or the owner
\* of one ctx does, every run either stays as it is or takes a step it could
\* take alone with its own ctx; activating a ctx changes no run
IndependentStep ==
  /\ cfg' = cfg
  /\ \A k \in Runs : runs'[k] = runs[k] \/ runs'[k] \in Alone(runs[k], ctxs[k])
  /\ ctxs' # ctxs => runs' = runs

\* every run works on the Config it was given, and only its own ctx aborts it
OwnAbort ==
  \A k \in Runs :
    /\ runs[k].pc # "idle" => runs[k].cfg = cfg
    /\ runs[k].pc = "done" /\ runs[k].ret \in CtxErrs
         => ctxs[k].done /\ runs[k].ret = ctxs[k].err
    /\ runs[k].pc = "done" /\ ~ctxs[k].done /\ ~FastPath(cfg)
         => \/ ~RetryOnApply(cfg.RetryOn, runs[k].ret)
            \/ runs[k].calls = cfg.MaxAttempts

\* C19: concurrent runs given the same Config value, with separate operations
\* and separate ctx, are independent: no run changes a field of the Config,
\* each run proceeds exactly as it would alone (so its invocation count and its
\* returned error are those of the run alone), and activating the ctx of one
\* run neither aborts nor shortens another.
C19_Independence == []OwnAbort /\ [][IndependentStep]_vars

\* run "a" has its ctx activated while waiting; run "b", in the middle of its
\* third invocation, has not
C19_Witness ==
  /\ runs["a"].pc = "select" /\ ctxs["a"].done
  /\ runs["b"].pc = "fn" /\ runs["b"].calls = 3 /\ ~ctxs["b"].done

====
